---- MODULE Spec2Model ----
(***************************************************************************)
(* Model of src/generate.js: a serverless chat endpoint that orders the    *)
(* Gemini model catalog by conversation size (getDynamicModelList) and     *)
(* walks the ordering with fallback (fetchFromModels), behind a CORS       *)
(* wrapper (allowCors) and a request handler (handler).                    *)
(*                                                                         *)
(* One request is followed from its arrival to its response.  Each action  *)
(* is one run-to-completion step of the JavaScript: the code between two   *)
(* await points, or one branch of the handler's validation chain.          *)
(***************************************************************************)
EXTENDS Integers, Sequences, FiniteSets, TLC

VARIABLES
  req,        \* the incoming request: method and parsed body
  apiKey,     \* process.env.GOOGLE_API_KEY is set (non-empty)
  pc,         \* control position of the request
  headers,    \* response headers set so far
  sent,       \* responses written to res, in order
  totalChars, \* handler: the size metric handed to getDynamicModelList
  modelList,  \* handler/fetchFromModels: the candidate ordering
  idx,        \* fetchFromModels: position of the for-of loop (1-based)
  lastError,  \* fetchFromModels: let lastError
  reply,      \* what the awaited axios.post settled with (response or error)
  result,     \* the value fetchFromModels returned to the handler
  thrown,     \* the error in flight to the handler's catch block
  inflight,   \* upstream calls issued and not yet settled
  calls,      \* models called upstream, in order
  log         \* history of the run: calls, classifications and waits

vars == << req, apiKey, pc, headers, sent, totalChars, modelList, idx,
           lastError, reply, result, thrown, inflight, calls, log >>

----------------------------------------------------------------------------
(* Bounds of the model *)

\* longest conversation (messages array) a request carries
MaxMsgs == 2
\* largest size handed to getDynamicModelList in the prioritizer-only specification
MaxTotalChars == 4100
\* most text segments of an upstream candidate in the classification-only specification
MaxParts == 2
\* longest candidate list in the executor-only specification
MaxCandidates == 2

----------------------------------------------------------------------------
(* Program constants *)

THRESHOLD == 4000
BACKOFF_MS == 500
DEFAULT_STATUS == 500

\* JavaScript arrays are 0-based
At(arr, i) == arr[i + 1]

ALL_MODELS ==
  << "gemini-2.5-pro",
     "gemini-2.5-flash",
     "gemini-1.5-pro-latest",
     "gemini-1.5-flash-latest",
     "gemini-pro" >>

MSG_METHOD   == "Metodo no permitido"
MSG_MESSAGES == "El campo messages es requerido y debe ser un array no vacio."
MSG_CONFIG   == "Error de configuracion del servidor."
MSG_GENERIC  == "No se pudo obtener una respuesta de los modelos. Intenta nuevamente."
MSG_QUOTA    == "Se ha excedido la cuota de solicitudes. Espera un momento."
MSG_BAD      == "Solicitud invalida. Revisa el contenido, puede contener informacion sensible."
MSG_TIMEOUT  == "La solicitud tardo demasiado en responder (Timeout)."
MSG_NOMODEL  == "No se pudo obtener una respuesta de ningun modelo de IA."

CORS_HEADERS ==
  { "Access-Control-Allow-Credentials", "Access-Control-Allow-Origin",
    "Access-Control-Allow-Methods", "Access-Control-Allow-Headers" }

----------------------------------------------------------------------------
(* Values *)

\* A text segment { text: ... }: a string of the given length, or no text at all.
Txt(n) == [defined |-> TRUE, len |-> n]
NoText == [defined |-> FALSE, len |-> 0]

\* JavaScript truthiness of p.text: undefined and "" are falsy
Truthy(t) == t.defined /\ t.len > 0

\* A message { parts: [...] }, or a message without a parts field.
Msg(parts) == [hasParts |-> TRUE, parts |-> parts]
NoParts    == [hasParts |-> FALSE, parts |-> << >>]

\* The message shapes requests are built from.
MessageShapes ==
  { NoParts,
    Msg(<< >>),
    Msg(<< NoText >>),
    Msg(<< Txt(1) >>),
    Msg(<< Txt(4000) >>),
    Msg(<< Txt(1), Txt(4000) >>) }

SeqsUpTo(S, n) == UNION { [1..k -> S] : k \in 0..n }

\* req.body: absent (undefined), or an object whose messages field is
\* undefined, a non-array value (a string), or an array of messages.
Bodies ==
  { [present |-> FALSE, kind |-> "undefined", msgs |-> << >>],
    [present |-> TRUE,  kind |-> "undefined", msgs |-> << >>],
    [present |-> TRUE,  kind |-> "string",    msgs |-> << >>] }
  \cup { [present |-> TRUE, kind |-> "array", msgs |-> m] :
           m \in SeqsUpTo(MessageShapes, MaxMsgs) }

Methods == { "OPTIONS", "POST", "GET" }

Requests == [method : Methods, body : Bodies]

\* response.data of a settled upstream call; finishReason "" is undefined
Payload(c, p, f) == [hasCandidate |-> c, parts |-> p, finishReason |-> f]
NoPayload == Payload(FALSE, << >>, "")

Payloads ==
  { Payload(TRUE, << Txt(1) >>, "STOP"),
    Payload(TRUE, << NoText, Txt(1) >>, "MAX_TOKENS"),
    Payload(TRUE, << Txt(1) >>, "SAFETY"),
    Payload(TRUE, << Txt(1) >>, ""),
    Payload(TRUE, << Txt(0) >>, "STOP"),
    NoPayload }

\* An Error object.  status 0: no error.response; message "": no
\* error.response.data.error.message.
Err(k, s, c, m, model, reason) ==
  [kind |-> k, status |-> s, code |-> c, upMsg |-> m, model |-> model, reason |-> reason]
NoError == Err("null", 0, "", "", "", "")

\* the errors axios.post rejects with, for a call to `model`
AxiosErrors(model) ==
  { Err("axios", 400, "ERR_BAD_REQUEST",  "Invalid argument",   model, ""),
    Err("axios", 429, "ERR_BAD_REQUEST",  "Resource exhausted", model, ""),
    Err("axios", 503, "ERR_BAD_RESPONSE", "Model overloaded",   model, ""),
    Err("axios", 500, "ERR_BAD_RESPONSE", "",                   model, ""),
    Err("axios", 0,   "ECONNABORTED",     "",                   model, ""),
    Err("axios", 0,   "ERR_NETWORK",      "",                   model, "") }

TypeError == Err("TypeError", 0, "", "", "", "")

Reply(k, d, e) == [kind |-> k, data |-> d, err |-> e]
NoReply == Reply("none", NoPayload, NoError)

Response(s, k, e, d) == [status |-> s, kind |-> k, error |-> e, data |-> d]

Event(e, m, ms) == [ev |-> e, model |-> m, ms |-> ms]

----------------------------------------------------------------------------
(* getDynamicModelList *)

\* Faulty variant: a repeated index in the long ordering drops a model.
getDynamicModelList_RepeatedIndex(tc) ==
  IF tc > THRESHOLD
    THEN << At(ALL_MODELS, 0), At(ALL_MODELS, 2), At(ALL_MODELS, 1),
            At(ALL_MODELS, 1), At(ALL_MODELS, 4) >>
    ELSE << At(ALL_MODELS, 1), At(ALL_MODELS, 3), At(ALL_MODELS, 0),
            At(ALL_MODELS, 2), At(ALL_MODELS, 4) >>

\* Faulty variant: the boundary size falls in the long regime (>= for >).
getDynamicModelList_BoundaryLong(tc) ==
  IF tc >= THRESHOLD
    THEN << At(ALL_MODELS, 0), At(ALL_MODELS, 2), At(ALL_MODELS, 1),
            At(ALL_MODELS, 3), At(ALL_MODELS, 4) >>
    ELSE << At(ALL_MODELS, 1), At(ALL_MODELS, 3), At(ALL_MODELS, 0),
            At(ALL_MODELS, 2), At(ALL_MODELS, 4) >>

getDynamicModelList(tc) ==
  IF tc > THRESHOLD
    THEN << At(ALL_MODELS, 0), At(ALL_MODELS, 2), At(ALL_MODELS, 1),
            At(ALL_MODELS, 3), At(ALL_MODELS, 4) >>
    ELSE << At(ALL_MODELS, 1), At(ALL_MODELS, 3), At(ALL_MODELS, 0),
            At(ALL_MODELS, 2), At(ALL_MODELS, 4) >>

----------------------------------------------------------------------------
(* handler: validation and size accounting *)

\* Faulty variant: the length test is missing, an empty array passes.
InvalidMessages_NoEmptyCheck(body) ==
  \/ body.kind = "undefined"
  \/ body.kind # "array"

\* !messages || !Array.isArray(messages) || messages.length === 0
InvalidMessages(body) ==
  \/ body.kind = "undefined"
  \/ body.kind # "array"
  \/ Len(body.msgs) = 0

\* msg.parts[0].text evaluates without a TypeError
Readable(msg) == msg.hasParts /\ Len(msg.parts) >= 1

\* msg.parts[0].text ? msg.parts[0].text.length : 0
CountedChars(msg) ==
  IF Truthy(At(msg.parts, 0)) THEN At(msg.parts, 0).len ELSE 0

\* messages.reduce((acc, msg) => acc + ..., 0)
RECURSIVE Reduce(_, _)
Reduce(msgs, acc) ==
  IF msgs = << >> THEN acc
  ELSE Reduce(Tail(msgs), acc + CountedChars(Head(msgs)))

----------------------------------------------------------------------------
(* fetchFromModels: classification of a settled call *)

\* candidate?.content?.parts?.some(p => p.text)
hasTextResult(data) ==
  /\ data.hasCandidate
  /\ \E i \in 1..Len(data.parts) : Truthy(data.parts[i])

\* Faulty variant: MAX_TOKENS is not on the allow-list.
Accepts_StopOnly(data) ==
  /\ hasTextResult(data)
  /\ data.finishReason = "STOP"

\* hasTextResult && (finishReason === 'STOP' || finishReason === 'MAX_TOKENS')
Accepts(data) ==
  /\ hasTextResult(data)
  /\ (data.finishReason = "STOP" \/ data.finishReason = "MAX_TOKENS")

\* new Error(`Respuesta vacia o bloqueada de ${model} (Razon: ${finishReason || 'Desconocida'})`)
SoftError(model, data) ==
  Err("soft", 0, "", "", model,
      IF data.finishReason # "" THEN data.finishReason ELSE "Desconocida")

\* new Error('No se pudo obtener una respuesta de ningun modelo de IA.')
NoModelError == Err("nomodel", 0, "", "", "", "")

\* error.response?.status || 500
StatusOf(error) == IF error.status # 0 THEN error.status ELSE DEFAULT_STATUS

\* Faulty variant: the abort tests for another status.
NonRetryable_WrongStatus(error) == StatusOf(error) = 404

\* status === 400
NonRetryable(error) == StatusOf(error) = 400

----------------------------------------------------------------------------
(* handler: mapping of the final error *)

\* const statusCode = error.response?.status || 500
statusCode(error) == IF error.status # 0 THEN error.status ELSE DEFAULT_STATUS

\* Faulty variant: the upstream's own message is never used.
errorMessage_NoUpstream(error) ==
  IF statusCode(error) = 429 THEN MSG_QUOTA
  ELSE IF statusCode(error) = 400 THEN MSG_BAD
  ELSE IF error.code = "ECONNABORTED" THEN MSG_TIMEOUT
  ELSE MSG_GENERIC

\* Faulty variant: the ECONNABORTED branch is missing.
errorMessage_NoTimeout(error) ==
  LET initial == IF error.upMsg # "" THEN error.upMsg ELSE MSG_GENERIC
  IN  IF statusCode(error) = 429 THEN MSG_QUOTA
      ELSE IF statusCode(error) = 400 THEN MSG_BAD
      ELSE initial

\* let errorMessage = ... ; if / else if / else if
errorMessage(error) ==
  LET initial == IF error.upMsg # "" THEN error.upMsg ELSE MSG_GENERIC
  IN  IF statusCode(error) = 429 THEN MSG_QUOTA
      ELSE IF statusCode(error) = 400 THEN MSG_BAD
      ELSE IF error.code = "ECONNABORTED" THEN MSG_TIMEOUT
      ELSE initial

----------------------------------------------------------------------------
(* State machine *)

Blank ==
  /\ headers = {}
  /\ sent = << >>
  /\ modelList = << >>
  /\ idx = 0
  /\ lastError = NoError
  /\ reply = NoReply
  /\ result = NoPayload
  /\ thrown = NoError
  /\ inflight = 0
  /\ calls = << >>
  /\ log = << >>

Init ==
  /\ req \in Requests
  /\ apiKey \in BOOLEAN
  /\ pc = "start"
  /\ totalChars = 0
  /\ Blank

\* res.status(s).json({ error: e }), res.status(200).json(data), res.status(200).end()
Send(r) == sent' = Append(sent, r)

\* allowCors: set the CORS headers, answer a preflight, else run the handler
AllowCors ==
  /\ pc = "start"
  /\ headers' = headers \cup CORS_HEADERS
  /\ IF req.method = "OPTIONS"
       THEN /\ Send(Response(200, "end", "", NoPayload))
            /\ pc' = "done"
       ELSE /\ pc' = "handler"
            /\ UNCHANGED sent
  /\ UNCHANGED << req, apiKey, totalChars, modelList, idx, lastError, reply,
                  result, thrown, inflight, calls, log >>

\* Faulty variant: the method is never tested.
HandlerMethod_NoCheck ==
  /\ pc = "handler"
  /\ pc' = "validate"
  /\ UNCHANGED << req, apiKey, headers, sent, totalChars, modelList, idx, lastError,
                  reply, result, thrown, inflight, calls, log >>

\* handler: if (req.method !== 'POST')
HandlerMethod ==
  /\ pc = "handler"
  /\ IF req.method # "POST"
       THEN /\ headers' = headers \cup { "Allow" }
            /\ Send(Response(405, "json", MSG_METHOD, NoPayload))
            /\ pc' = "done"
       ELSE /\ pc' = "validate"
            /\ UNCHANGED << headers, sent >>
  /\ UNCHANGED << req, apiKey, totalChars, modelList, idx, lastError, reply,
                  result, thrown, inflight, calls, log >>

\* handler: const { messages } = req.body; if (!messages || ...)
\* Destructuring an undefined body throws outside the try block: the async
\* handler rejects and writes no response.
HandlerValidate ==
  /\ pc = "validate"
  /\ IF ~req.body.present
       THEN /\ thrown' = TypeError
            /\ pc' = "rejected"
            /\ UNCHANGED sent
       ELSE IF InvalidMessages(req.body)
         THEN /\ Send(Response(400, "json", MSG_MESSAGES, NoPayload))
              /\ pc' = "done"
              /\ UNCHANGED thrown
         ELSE /\ pc' = "key"
              /\ UNCHANGED << sent, thrown >>
  /\ UNCHANGED << req, apiKey, headers, totalChars, modelList, idx, lastError,
                  reply, result, inflight, calls, log >>

\* Faulty variant: the credential is never tested.
HandlerKey_NoCheck ==
  /\ pc = "key"
  /\ pc' = "prioritize"
  /\ UNCHANGED << req, apiKey, headers, sent, totalChars, modelList, idx, lastError,
                  reply, result, thrown, inflight, calls, log >>

\* handler: if (!apiKey)
HandlerKey ==
  /\ pc = "key"
  /\ IF ~apiKey
       THEN /\ Send(Response(500, "json", MSG_CONFIG, NoPayload))
            /\ pc' = "done"
       ELSE /\ pc' = "prioritize"
            /\ UNCHANGED sent
  /\ UNCHANGED << req, apiKey, headers, totalChars, modelList, idx, lastError,
                  reply, result, thrown, inflight, calls, log >>

\* handler, in the try block: totalChars, modelList, and the call of
\* fetchFromModels (let lastError = null, the loop starts at the first model).
\* A message without parts[0] makes the reduce throw a TypeError.
HandlerPrioritize ==
  /\ pc = "prioritize"
  /\ IF \A i \in 1..Len(req.body.msgs) : Readable(req.body.msgs[i])
       THEN /\ totalChars' = Reduce(req.body.msgs, 0)
            /\ modelList' = getDynamicModelList(totalChars')
            /\ lastError' = NoError
            /\ idx' = 1
            /\ pc' = "loop"
            /\ UNCHANGED thrown
       ELSE /\ thrown' = TypeError
            /\ pc' = "catch"
            /\ UNCHANGED << totalChars, modelList, lastError, idx >>
  /\ UNCHANGED << req, apiKey, headers, sent, reply, result, inflight, calls, log >>

\* Faulty variant: axios.post is not awaited, the loop goes on at once.
FetchNext_NoAwait ==
  /\ pc = "loop"
  /\ IF idx <= Len(modelList)
       THEN /\ calls' = Append(calls, modelList[idx])
            /\ log' = Append(log, Event("call", modelList[idx], 0))
            /\ inflight' = inflight + 1
            /\ reply' = NoReply
            /\ idx' = idx + 1
            /\ pc' = "loop"
            /\ UNCHANGED << thrown, lastError >>
       ELSE /\ thrown' = IF lastError # NoError THEN lastError ELSE NoModelError
            /\ lastError' = NoError
            /\ pc' = "catch"
            /\ UNCHANGED << calls, log, inflight, reply, idx >>
  /\ UNCHANGED << req, apiKey, headers, sent, totalChars, modelList, result >>

\* fetchFromModels: the head of the for-of loop.  With a model left, issue
\* axios.post for it; with none left, throw lastError || new Error(...).
FetchNext ==
  /\ pc = "loop"
  /\ IF idx <= Len(modelList)
       THEN /\ calls' = Append(calls, modelList[idx])
            /\ log' = Append(log, Event("call", modelList[idx], 0))
            /\ inflight' = inflight + 1
            /\ reply' = NoReply
            /\ pc' = "await"
            /\ UNCHANGED << thrown, lastError >>
       ELSE /\ thrown' = IF lastError # NoError THEN lastError ELSE NoModelError
            /\ lastError' = NoError
            /\ pc' = "catch"
            /\ UNCHANGED << calls, log, inflight, reply >>
  /\ UNCHANGED << req, apiKey, headers, sent, totalChars, modelList, idx, result >>

\* The upstream call settles: axios.post resolves with a 2xx payload ...
UpstreamResolve ==
  /\ pc = "await"
  /\ \E data \in Payloads : reply' = Reply("response", data, NoError)
  /\ inflight' = inflight - 1
  /\ pc' = "settled"
  /\ UNCHANGED << req, apiKey, headers, sent, totalChars, modelList, idx,
                  lastError, result, thrown, calls, log >>

\* ... or rejects: an HTTP error status, the 45 s timeout, a network error.
UpstreamReject ==
  /\ pc = "await"
  /\ \E e \in AxiosErrors(modelList[idx]) : reply' = Reply("error", NoPayload, e)
  /\ inflight' = inflight - 1
  /\ pc' = "settled"
  /\ UNCHANGED << req, apiKey, headers, sent, totalChars, modelList, idx,
                  lastError, result, thrown, calls, log >>

\* Faulty variant: an accepted response does not end the loop.
OnResponse_NoReturn ==
  /\ pc = "settled"
  /\ reply.kind = "response"
  /\ IF Accepts(reply.data)
       THEN /\ result' = reply.data
            /\ log' = Append(log, Event("accept", modelList[idx], 0))
            /\ UNCHANGED lastError
       ELSE /\ lastError' = SoftError(modelList[idx], reply.data)
            /\ log' = Append(log, Event("soft", modelList[idx], 0))
            /\ UNCHANGED result
  /\ idx' = idx + 1
  /\ pc' = "loop"
  /\ UNCHANGED << req, apiKey, headers, sent, totalChars, modelList, reply,
                  thrown, inflight, calls >>

\* Faulty variant: a soft failure also waits before the next model.
OnResponse_Backoff ==
  /\ pc = "settled"
  /\ reply.kind = "response"
  /\ IF Accepts(reply.data)
       THEN /\ result' = reply.data
            /\ log' = Append(log, Event("accept", modelList[idx], 0))
            /\ lastError' = NoError
            /\ pc' = "respond"
       ELSE /\ lastError' = SoftError(modelList[idx], reply.data)
            /\ log' = Append(log, Event("soft", modelList[idx], 0))
            /\ pc' = "delay"
            /\ UNCHANGED result
  /\ UNCHANGED << req, apiKey, headers, sent, totalChars, modelList, idx, reply,
                  thrown, inflight, calls >>

\* Faulty variant: a soft failure is not recorded in lastError.
OnResponse_NoRecord ==
  /\ pc = "settled"
  /\ reply.kind = "response"
  /\ IF Accepts(reply.data)
       THEN /\ result' = reply.data
            /\ log' = Append(log, Event("accept", modelList[idx], 0))
            /\ lastError' = NoError
            /\ pc' = "respond"
            /\ UNCHANGED idx
       ELSE /\ log' = Append(log, Event("soft", modelList[idx], 0))
            /\ idx' = idx + 1
            /\ pc' = "loop"
            /\ UNCHANGED << result, lastError >>
  /\ UNCHANGED << req, apiKey, headers, sent, totalChars, modelList, reply,
                  thrown, inflight, calls >>

\* fetchFromModels, after the await in the try block: accept and return, or
\* record the soft failure and continue with the next model
OnResponse ==
  /\ pc = "settled"
  /\ reply.kind = "response"
  /\ IF Accepts(reply.data)
       THEN /\ result' = reply.data
            /\ log' = Append(log, Event("accept", modelList[idx], 0))
            /\ lastError' = NoError
            /\ pc' = "respond"
            /\ UNCHANGED idx
       ELSE /\ lastError' = SoftError(modelList[idx], reply.data)
            /\ log' = Append(log, Event("soft", modelList[idx], 0))
            /\ idx' = idx + 1
            /\ pc' = "loop"
            /\ UNCHANGED result
  /\ UNCHANGED << req, apiKey, headers, sent, totalChars, modelList, reply,
                  thrown, inflight, calls >>

\* Faulty variant: only the first failure is kept (lastError = lastError || error).
OnError_KeepFirst ==
  /\ pc = "settled"
  /\ reply.kind = "error"
  /\ IF NonRetryable(reply.err)
       THEN /\ thrown' = reply.err
            /\ lastError' = NoError
            /\ log' = Append(log, Event("abort", modelList[idx], 0))
            /\ pc' = "catch"
       ELSE /\ lastError' = (IF lastError # NoError THEN lastError ELSE reply.err)
            /\ log' = Append(log, Event("hard", modelList[idx], 0))
            /\ pc' = "delay"
            /\ UNCHANGED thrown
  /\ UNCHANGED << req, apiKey, headers, sent, totalChars, modelList, idx, reply,
                  result, inflight, calls >>

\* Faulty variant: a retryable failure continues without the backoff wait.
OnError_NoDelay ==
  /\ pc = "settled"
  /\ reply.kind = "error"
  /\ IF NonRetryable(reply.err)
       THEN /\ thrown' = reply.err
            /\ lastError' = NoError
            /\ log' = Append(log, Event("abort", modelList[idx], 0))
            /\ pc' = "catch"
            /\ UNCHANGED idx
       ELSE /\ lastError' = reply.err
            /\ log' = Append(log, Event("hard", modelList[idx], 0))
            /\ idx' = idx + 1
            /\ pc' = "loop"
            /\ UNCHANGED thrown
  /\ UNCHANGED << req, apiKey, headers, sent, totalChars, modelList, reply,
                  result, inflight, calls >>

\* fetchFromModels, the catch block: rethrow on status 400, else start the
\* backoff wait
OnError ==
  /\ pc = "settled"
  /\ reply.kind = "error"
  /\ IF NonRetryable(reply.err)
       THEN /\ thrown' = reply.err
            /\ lastError' = NoError
            /\ log' = Append(log, Event("abort", modelList[idx], 0))
            /\ pc' = "catch"
       ELSE /\ lastError' = reply.err
            /\ log' = Append(log, Event("hard", modelList[idx], 0))
            /\ pc' = "delay"
            /\ UNCHANGED thrown
  /\ UNCHANGED << req, apiKey, headers, sent, totalChars, modelList, idx, reply,
                  result, inflight, calls >>

\* Faulty variant: after the wait the same model is tried again.
DelayElapsed_Retry ==
  /\ pc = "delay"
  /\ log' = Append(log, Event("delay", modelList[idx], BACKOFF_MS))
  /\ pc' = "loop"
  /\ UNCHANGED << req, apiKey, headers, sent, totalChars, modelList, idx, lastError,
                  reply, result, thrown, inflight, calls >>

\* await delay(500) elapses; continue with the next model
DelayElapsed ==
  /\ pc = "delay"
  /\ log' = Append(log, Event("delay", modelList[idx], BACKOFF_MS))
  /\ idx' = idx + 1
  /\ pc' = "loop"
  /\ UNCHANGED << req, apiKey, headers, sent, totalChars, modelList, lastError,
                  reply, result, thrown, inflight, calls >>

\* Faulty variant: the success response carries no body.
HandlerSuccess_NoBody ==
  /\ pc = "respond"
  /\ Send(Response(200, "end", "", NoPayload))
  /\ pc' = "done"
  /\ UNCHANGED << req, apiKey, headers, totalChars, modelList, idx, lastError,
                  reply, result, thrown, inflight, calls, log >>

\* handler: return res.status(200).json(responseData)
HandlerSuccess ==
  /\ pc = "respond"
  /\ Send(Response(200, "json", "", result))
  /\ pc' = "done"
  /\ UNCHANGED << req, apiKey, headers, totalChars, modelList, idx, lastError,
                  reply, result, thrown, inflight, calls, log >>

\* handler: the catch block
HandlerCatch ==
  /\ pc = "catch"
  /\ Send(Response(statusCode(thrown), "json", errorMessage(thrown), NoPayload))
  /\ pc' = "done"
  /\ UNCHANGED << req, apiKey, headers, totalChars, modelList, idx, lastError,
                  reply, result, thrown, inflight, calls, log >>

Next ==
  \/ AllowCors
  \/ HandlerMethod
  \/ HandlerValidate
  \/ HandlerKey
  \/ HandlerPrioritize
  \/ FetchNext
  \/ UpstreamResolve
  \/ UpstreamReject
  \/ OnResponse
  \/ OnError
  \/ DelayElapsed
  \/ HandlerSuccess
  \/ HandlerCatch

Spec == Init /\ [][Next]_vars

----------------------------------------------------------------------------
(* The prioritizer alone: getDynamicModelList applied to every size up to  *)
(* MaxTotalChars.                                                          *)

InitPrio ==
  /\ req = [method |-> "POST",
            body |-> [present |-> TRUE, kind |-> "array", msgs |-> << Msg(<< NoText >>) >>]]
  /\ apiKey = TRUE
  /\ pc = "prio"
  /\ totalChars \in 0..MaxTotalChars
  /\ Blank

\* const modelList = getDynamicModelList(totalChars)
Prioritize ==
  /\ pc = "prio"
  /\ modelList' = getDynamicModelList(totalChars)
  /\ pc' = "ordered"
  /\ UNCHANGED << req, apiKey, headers, sent, totalChars, idx, lastError, reply,
                  result, thrown, inflight, calls, log >>

NextPrio == Prioritize

SpecPrio == InitPrio /\ [][NextPrio]_vars

----------------------------------------------------------------------------
(* The classification alone: the first call of a request has settled with  *)
(* a response, drawn from every payload shape up to MaxParts segments.     *)

Texts == { NoText, Txt(0), Txt(1) }

FinishReasons == { "", "STOP", "MAX_TOKENS", "SAFETY", "RECITATION", "OTHER" }

AllPayloads ==
  { NoPayload }
  \cup { Payload(TRUE, p, f) : p \in SeqsUpTo(Texts, MaxParts), f \in FinishReasons }

InitClassify ==
  /\ req = [method |-> "POST",
            body |-> [present |-> TRUE, kind |-> "array", msgs |-> << Msg(<< NoText >>) >>]]
  /\ apiKey = TRUE
  /\ pc = "settled"
  /\ headers = CORS_HEADERS
  /\ sent = << >>
  /\ totalChars = 0
  /\ modelList = getDynamicModelList(0)
  /\ idx = 1
  /\ lastError = NoError
  /\ reply \in { Reply("response", d, NoError) : d \in AllPayloads }
  /\ result = NoPayload
  /\ thrown = NoError
  /\ inflight = 0
  /\ calls = << modelList[1] >>
  /\ log = << Event("call", modelList[1], 0) >>

NextClassify ==
  \/ OnResponse
  \/ FetchNext

SpecClassify == InitClassify /\ [][NextClassify]_vars

----------------------------------------------------------------------------
(* The executor alone: fetchFromModels called with a candidate list of up  *)
(* to MaxCandidates models, the empty list included.                       *)

CandidateLists ==
  { SubSeq(getDynamicModelList(tc), 1, k) :
      tc \in { 0, THRESHOLD + 1 }, k \in 0..MaxCandidates }

InitFetch ==
  /\ req = [method |-> "POST",
            body |-> [present |-> TRUE, kind |-> "array", msgs |-> << Msg(<< NoText >>) >>]]
  /\ apiKey = TRUE
  /\ pc = "loop"
  /\ headers = CORS_HEADERS
  /\ sent = << >>
  /\ totalChars = 0
  /\ modelList \in CandidateLists
  /\ idx = 1
  /\ lastError = NoError
  /\ reply = NoReply
  /\ result = NoPayload
  /\ thrown = NoError
  /\ inflight = 0
  /\ calls = << >>
  /\ log = << >>

NextFetch ==
  \/ FetchNext
  \/ UpstreamResolve
  \/ UpstreamReject
  \/ OnResponse
  \/ OnError
  \/ DelayElapsed

SpecFetch == InitFetch /\ [][NextFetch]_vars

----------------------------------------------------------------------------
(* Properties *)

Range(seq) == { seq[i] : i \in 1..Len(seq) }
NoDuplicates(seq) == \A i, j \in 1..Len(seq) : seq[i] = seq[j] => i = j
Last(seq) == seq[Len(seq)]

\* C1: for every size, the ordering getDynamicModelList returns is a
\* permutation of the 5-entry catalog ALL_MODELS (same set, length 5, no
\* duplicates) and its last element is the oldest fallback, gemini-pro.
C1_OrderingIsPermutation ==
  pc = "ordered" =>
    /\ Len(ALL_MODELS) = 5
    /\ Len(modelList) = 5
    /\ Range(modelList) = Range(ALL_MODELS)
    /\ NoDuplicates(modelList)
    /\ Last(modelList) = "gemini-pro"

C1_Witness ==
  /\ pc = "ordered"
  /\ totalChars > THRESHOLD
  /\ Len(modelList) = 5
  /\ Last(modelList) = "gemini-pro"

LongOrdering ==
  << "gemini-2.5-pro", "gemini-1.5-pro-latest", "gemini-2.5-flash",
     "gemini-1.5-flash-latest", "gemini-pro" >>

ShortOrdering ==
  << "gemini-2.5-flash", "gemini-1.5-flash-latest", "gemini-2.5-pro",
     "gemini-1.5-pro-latest", "gemini-pro" >>

\* C2: every size above 4000 gets the ordering that starts with
\* gemini-2.5-pro; every size up to and including 4000 gets the ordering
\* that starts with gemini-2.5-flash.
C2_ThresholdSplit ==
  pc = "ordered" =>
    /\ totalChars > 4000  => modelList = LongOrdering
    /\ totalChars <= 4000 => modelList = ShortOrdering

C2_Witness ==
  /\ pc = "ordered"
  /\ totalChars = 4000
  /\ modelList = ShortOrdering

IsOutcome(e) == e.ev \in { "accept", "soft", "hard", "abort" }
IsSoft(e) == e.ev = "soft"
IsDelay(e) == e.ev = "delay"

\* the classifications of the attempts so far, in order
Outcomes == SelectSeq(log, IsOutcome)
Kinds(seq) == [i \in 1..Len(seq) |-> seq[i].ev]
SoftCount == Len(SelectSeq(log, IsSoft))

\* C3: an attempt classified as Accept ends the run: it is the last thing
\* that happens upstream, fetchFromModels returns that attempt's response,
\* and an accepted reply never leads anywhere but to the return; when the
\* first candidate is accepted exactly one upstream call has been made.
C3_FirstAcceptWins ==
  /\ \A i \in 1..Len(log) :
       log[i].ev = "accept" =>
         /\ i = Len(log)
         /\ pc \in { "respond", "done" }
         /\ result = reply.data
         /\ log[i].model = Last(calls)
  /\ (reply.kind = "response" /\ Accepts(reply.data) /\ pc # "settled") =>
       /\ log # << >>
       /\ Last(log).ev = "accept"
       /\ result = reply.data
  /\ (Len(log) >= 2 /\ log[2].ev = "accept") => Len(calls) = 1

C3_Witness ==
  /\ pc = "done"
  /\ Len(log) = 2
  /\ log[2].ev = "accept"
  /\ Len(calls) = 1
  /\ result = reply.data

\* C4: an attempt that fails with HTTP status 400 ends the run at once:
\* the abort is the last thing that happens, that very error is the one
\* thrown to the handler, no wait and no further call follows; a 400 on
\* the first candidate leaves exactly one upstream call.
C4_NonRetryableAborts ==
  /\ \A i \in 1..Len(log) :
       log[i].ev = "abort" =>
         /\ i = Len(log)
         /\ pc \in { "catch", "done" }
         /\ thrown = reply.err
         /\ thrown.status = 400
         /\ thrown.model = Last(calls)
         /\ log[i].model = Last(calls)
  /\ (reply.kind = "error" /\ reply.err.status = 400 /\ pc # "settled") =>
       /\ log # << >>
       /\ Last(log).ev = "abort"
       /\ thrown = reply.err
  /\ (Len(log) >= 2 /\ log[2].ev = "abort") => Len(calls) = 1

C4_Witness ==
  /\ pc = "done"
  /\ Len(log) = 2
  /\ log[2].ev = "abort"
  /\ Len(calls) = 1
  /\ thrown.status = 400

\* C5: while every attempt so far was a soft failure the candidates have
\* been called once each in list order; once every candidate has yielded a
\* soft failure, the calls are exactly the list and fetchFromModels throws
\* the soft-failure error made for the last candidate.
C5_AllSoftExhausts ==
  /\ (\A i \in 1..Len(log) : log[i].ev \in { "call", "soft" }) =>
       /\ Len(calls) <= Len(modelList)
       /\ calls = SubSeq(modelList, 1, Len(calls))
       /\ \A k \in 1..Len(calls) : log[2 * k - 1] = Event("call", modelList[k], 0)
  /\ (modelList # << >> /\ SoftCount = Len(modelList)) =>
       /\ calls = modelList
       /\ pc \in { "loop", "catch", "done" }
       /\ pc # "loop" =>
            /\ thrown.kind = "soft"
            /\ thrown.model = Last(modelList)
            /\ thrown = SoftError(Last(modelList), reply.data)

C5_Witness ==
  /\ pc = "done"
  /\ SoftCount = 5
  /\ calls = modelList
  /\ thrown.kind = "soft"

\* C6: when the first attempt is a retryable hard failure, the 500 ms wait
\* comes after that failure and before the second call; when the outcomes
\* are exactly [retryable hard failure, Accept] there are exactly two calls,
\* one wait between them, and the second candidate's response is returned.
C6_RetryThenAccept ==
  LET out == Kinds(Outcomes)
  IN  /\ (Len(out) >= 1 /\ out[1] = "hard" /\ Len(calls) >= 2) =>
           /\ Len(log) >= 4
           /\ log[1] = Event("call", modelList[1], 0)
           /\ log[2] = Event("hard", modelList[1], 0)
           /\ log[3] = Event("delay", modelList[1], 500)
           /\ log[4] = Event("call", modelList[2], 0)
      /\ (Len(out) = 2 /\ out[1] = "hard" /\ out[2] = "accept") =>
           /\ calls = << modelList[1], modelList[2] >>
           /\ Len(log) = 5
           /\ log[5] = Event("accept", modelList[2], 0)
           /\ Len(SelectSeq(log, IsDelay)) = 1
           /\ result = reply.data
           /\ pc \in { "respond", "done" }

C6_Witness ==
  /\ pc = "done"
  /\ Kinds(Outcomes) = << "hard", "accept" >>
  /\ Len(calls) = 2
  /\ log[3].ev = "delay"

\* the request carries a body object whose messages field is missing, is
\* not an array, or is an empty array
BadMessagesField ==
  /\ req.body.present
  /\ \/ req.body.kind = "undefined"
     \/ req.body.kind = "string"
     \/ (req.body.kind = "array" /\ req.body.msgs = << >>)

\* the request carries a non-empty messages array
GoodMessagesField ==
  /\ req.body.present
  /\ req.body.kind = "array"
  /\ req.body.msgs # << >>

ValidationResponse == Response(400, "json", MSG_MESSAGES, NoPayload)
ConfigResponse == Response(500, "json", MSG_CONFIG, NoPayload)

C8_AnyRequestWithoutKey ==
  (~apiKey /\ pc = "done") =>
    /\ sent = << ConfigResponse >>
    /\ calls = << >>

\* C8 amended: while GOOGLE_API_KEY is absent no request makes an upstream
\* call, and a POST carrying a non-empty messages array ends with the 500
\* server-configuration response.
C8_ValidPostWithoutKey ==
  ~apiKey =>
    /\ calls = << >>
    /\ inflight = 0
    /\ (req.method = "POST" /\ GoodMessagesField) =>
         /\ pc \in { "start", "handler", "validate", "key", "done" }
         /\ pc = "done" => sent = << ConfigResponse >>
         /\ pc # "done" => sent = << >>

C8_Witness ==
  /\ pc = "done"
  /\ ~apiKey
  /\ req.method = "POST"
  /\ GoodMessagesField
  /\ sent = << ConfigResponse >>
  /\ calls = << >>

\* the character lengths of all text segments of one message, of all messages
RECURSIVE PartsChars(_)
PartsChars(parts) ==
  IF parts = << >> THEN 0
  ELSE (IF Head(parts).defined THEN Head(parts).len ELSE 0) + PartsChars(Tail(parts))

RECURSIVE AllTextChars(_)
AllTextChars(msgs) ==
  IF msgs = << >> THEN 0
  ELSE PartsChars(Head(msgs).parts) + AllTextChars(Tail(msgs))

\* C9: the size handed to the prioritizer is the sum of the lengths of all
\* text segments of all messages, and the long ordering is chosen exactly
\* when that sum exceeds 4000.
C9_SizeCountsAllSegments ==
  modelList # << >> =>
    /\ totalChars = AllTextChars(req.body.msgs)
    /\ (modelList = LongOrdering) <=> (AllTextChars(req.body.msgs) > 4000)

\* C10: on final failure the response status is the upstream status of the
\* surfaced error, or 500 when it has none; status 429 gives the quota
\* message, status 400 the bad-request message, a timeout (ECONNABORTED
\* without upstream status) the timeout message; the three messages differ.
C10_ErrorCategories ==
  /\ Cardinality({ MSG_QUOTA, MSG_BAD, MSG_TIMEOUT }) = 3
  /\ (pc = "done" /\ thrown # NoError) =>
       /\ Len(sent) = 1
       /\ sent[1].kind = "json"
       /\ sent[1].data = NoPayload
       /\ sent[1].status = (IF thrown.status # 0 THEN thrown.status ELSE 500)
       /\ thrown.status = 429 => sent[1].error = MSG_QUOTA
       /\ thrown.status = 400 => sent[1].error = MSG_BAD
       /\ (thrown.status = 0 /\ thrown.code = "ECONNABORTED") =>
            sent[1].error = MSG_TIMEOUT

C10_Witness ==
  /\ pc = "done"
  /\ thrown.status = 0
  /\ thrown.code = "ECONNABORTED"
  /\ sent = << Response(500, "json", MSG_TIMEOUT, NoPayload) >>

\* the surfaced error is neither quota, nor bad request, nor a timeout
OtherFailure ==
  /\ pc = "done"
  /\ thrown # NoError
  /\ thrown.status # 429
  /\ thrown.status # 400
  /\ thrown.code # "ECONNABORTED"

\* C11 as stated: on final failure with an error that is neither quota (429),
\* nor bad request (400), nor a timeout, the message is the generic one.
C11_AlwaysGeneric ==
  OtherFailure => (Len(sent) = 1 /\ sent[1].error = MSG_GENERIC)

\* C11 amended: on final failure with an error that is neither quota, nor
\* bad request, nor a timeout, the message is the upstream's own error
\* message when the error carries one, and the generic message otherwise.
C11_UpstreamMessageOrGeneric ==
  OtherFailure =>
    /\ Len(sent) = 1
    /\ thrown.upMsg # "" => sent[1].error = thrown.upMsg
    /\ thrown.upMsg = "" => sent[1].error = MSG_GENERIC

C11_Witness ==
  /\ OtherFailure
  /\ thrown.status = 503
  /\ thrown.upMsg = "Model overloaded"
  /\ sent = << Response(503, "json", "Model overloaded", NoPayload) >>

MethodResponse == Response(405, "json", MSG_METHOD, NoPayload)
PreflightResponse == Response(200, "end", "", NoPayload)

\* the request has touched neither the body, nor the credential, nor the
\* upstream
NothingElseDone ==
  /\ pc \in { "start", "handler", "done" }
  /\ thrown = NoError
  /\ modelList = << >>
  /\ calls = << >>
  /\ inflight = 0
  /\ log = << >>

\* C12 as stated: every request whose method is not POST ends with the 405
\* method-not-allowed response, and nothing else is done for it.
C12_AnyNonPostIs405 ==
  req.method # "POST" =>
    /\ NothingElseDone
    /\ pc = "done" => sent = << MethodResponse >>

\* C12 amended: every request whose method is neither POST nor OPTIONS ends
\* with the 405 method-not-allowed response; an OPTIONS request ends with
\* the empty 200 preflight response; for both the body is not read, the
\* credential is not tested and no upstream call is made.
C12_NonPostRejected ==
  req.method # "POST" =>
    /\ NothingElseDone
    /\ pc # "done" => sent = << >>
    /\ (pc = "done" /\ req.method # "OPTIONS") =>
         /\ sent = << MethodResponse >>
         /\ "Allow" \in headers
    /\ (pc = "done" /\ req.method = "OPTIONS") => sent = << PreflightResponse >>

C12_Witness ==
  /\ pc = "done"
  /\ req.method = "GET"
  /\ ~req.body.present
  /\ ~apiKey
  /\ sent = << MethodResponse >>

\* a message that exposes no text segment: no parts, or no part with a text
NoTextSegment(msg) ==
  \/ ~msg.hasParts
  \/ \A i \in 1..Len(msg.parts) : ~msg.parts[i].defined

\* C13: a POST (credential present) whose non-empty messages array holds a
\* message that exposes no text segment gets the 400 validation response,
\* and the upstream is never contacted.
C13_MalformedShapeRejected ==
  ( /\ req.method = "POST"
    /\ apiKey
    /\ GoodMessagesField
    /\ \E i \in 1..Len(req.body.msgs) : NoTextSegment(req.body.msgs[i]) ) =>
    /\ calls = << >>
    /\ pc = "done" => (Len(sent) = 1 /\ sent[1].status = 400)

\* C14: once fetchFromModels has returned an accepted result, the one
\* response of the handler is status 200 with a body equal to the payload
\* the upstream delivered for the accepted attempt.
C14_SuccessIsVerbatim ==
  (pc = "done" /\ log # << >> /\ Last(log).ev = "accept") =>
    /\ reply.kind = "response"
    /\ sent = << Response(200, "json", "", reply.data) >>

C14_Witness ==
  /\ pc = "done"
  /\ Len(calls) = 2
  /\ Last(log).ev = "accept"
  /\ reply.data = Payload(TRUE, << NoText, Txt(1) >>, "MAX_TOKENS")
  /\ sent[1].status = 200
  /\ sent[1].data = reply.data

\* the first candidate has a non-empty text segment and its completion
\* reason is STOP or MAX_TOKENS
Acceptable(d) ==
  /\ d.hasCandidate
  /\ \E i \in 1..Len(d.parts) : d.parts[i].defined /\ d.parts[i].len >= 1
  /\ d.finishReason \in { "STOP", "MAX_TOKENS" }

\* C15: a completed upstream response is classified as Accept exactly when
\* its first candidate has a non-empty text segment and its completion
\* reason is STOP or MAX_TOKENS; every other completed response is a soft
\* failure: it is recorded and the loop moves to the next candidate.
C15_Classification ==
  (reply.kind = "response" /\ pc # "settled") =>
    /\ log # << >>
    /\ Acceptable(reply.data) <=> (Last(log).ev = "accept")
    /\ ~Acceptable(reply.data) <=> (Last(log).ev = "soft")
    /\ Last(log).ev = "accept" =>
         /\ pc \in { "respond", "done" }
         /\ result = reply.data
    /\ Last(log).ev = "soft" =>
         /\ pc \in { "loop", "catch", "done" }
         /\ idx = Len(calls) + 1
         /\ pc = "loop" => (lastError.kind = "soft" /\ lastError.model = Last(calls))

C15_Witness ==
  /\ pc = "loop"
  /\ reply.data = Payload(TRUE, << Txt(1) >>, "RECITATION")
  /\ Last(log).ev = "soft"
  /\ idx = 2

\* fetchFromModels has run and has ended (returned or thrown)
FetchEnded ==
  /\ modelList # << >>
  /\ pc \in { "respond", "catch", "done" }

\* C16: the calls of a run are a prefix of the ordering, so each candidate
\* is called at most once and in list order; there are never more than
\* Len(modelList) calls, which is 5 for the orderings of the prioritizer,
\* and a run that has ended has made at least one call.
C16_RetryBudget ==
  /\ Len(calls) <= Len(modelList)
  /\ Len(calls) <= 5
  /\ calls = SubSeq(modelList, 1, Len(calls))
  /\ NoDuplicates(calls)
  /\ FetchEnded => Len(calls) >= 1

C16_Witness ==
  /\ pc = "done"
  /\ Len(calls) = 5
  /\ calls = modelList
  /\ Last(log).ev = "delay"

\* fetchFromModels was called and has thrown after the loop ran out of
\* candidates (not by the rethrow of a status 400)
Exhausted ==
  /\ idx >= 1
  /\ pc = "catch"
  /\ (log = << >> \/ Last(log).ev # "abort")

\* C17: when the candidates are exhausted, every candidate has been called
\* and the error thrown is the one recorded for the last candidate: the soft
\* failure built from its response, or the error its call rejected with;
\* the generic no-model error is thrown exactly when the list is empty.
C17_LastFailureSurfaces ==
  Exhausted =>
    /\ calls = modelList
    /\ (modelList = << >>) <=> (thrown = NoModelError)
    /\ modelList # << >> =>
         /\ thrown.model = Last(modelList)
         /\ reply.kind \in { "response", "error" }
         /\ reply.kind = "response" =>
              /\ thrown.kind = "soft"
              /\ thrown = SoftError(Last(modelList), reply.data)
              /\ Last(log).ev = "soft"
         /\ reply.kind = "error" =>
              /\ thrown = reply.err
              /\ Last(log).ev = "delay"

C17_Witness ==
  /\ Exhausted
  /\ Len(modelList) = 2
  /\ Kinds(Outcomes) = << "hard", "hard" >>
  /\ thrown.status = 503
  /\ thrown.model = modelList[2]

\* position of a model in the candidate list (0 when absent)
PositionOf(m) ==
  IF \E k \in 1..Len(modelList) : modelList[k] = m
    THEN CHOOSE k \in 1..Len(modelList) : modelList[k] = m
    ELSE 0

\* C18: at most one upstream call is in flight, and only while the loop
\* awaits it; each call has its outcome classified before the next call;
\* and every call but the first directly follows the classification of the
\* previous candidate as a soft failure, or the wait that follows its
\* classification as a retryable hard failure.
C18_Sequential ==
  /\ inflight \in { 0, 1 }
  /\ (inflight = 1) <=> (pc = "await")
  /\ Len(calls) - Len(Outcomes) \in { 0, 1 }
  /\ (Len(calls) - Len(Outcomes) = 1) <=> (pc \in { "await", "settled" })
  /\ log # << >> => log[1].ev = "call"
  /\ \A j \in 2..Len(log) :
       log[j].ev = "call" =>
         /\ PositionOf(log[j - 1].model) + 1 = PositionOf(log[j].model)
         /\ \/ log[j - 1].ev = "soft"
            \/ /\ log[j - 1].ev = "delay"
               /\ j >= 3
               /\ log[j - 2].ev = "hard"
               /\ log[j - 2].model = log[j - 1].model

C18_Witness ==
  /\ pc = "await"
  /\ inflight = 1
  /\ Len(calls) = 3
  /\ Kinds(Outcomes) = << "soft", "hard" >>

\* C19: a 500 ms wait occurs exactly after an attempt that ended in a
\* retryable hard failure (a rejected call whose status is not 400) and
\* before anything else happens; after a soft failure the next event is
\* the next call; an accept and an abort directly follow their call and
\* end the run.
C19_BackoffPlacement ==
  /\ \A j \in 1..Len(log) :
       /\ log[j].ev = "delay" =>
            /\ j >= 2
            /\ log[j - 1].ev = "hard"
            /\ log[j - 1].model = log[j].model
            /\ log[j].ms = 500
       /\ log[j].ev = "hard" =>
            /\ j < Len(log) => log[j + 1].ev = "delay"
            /\ j = Len(log) => pc = "delay"
       /\ log[j].ev = "soft" =>
            /\ j < Len(log) => log[j + 1].ev = "call"
            /\ j = Len(log) => pc # "delay"
       /\ log[j].ev \in { "accept", "abort" } =>
            /\ j >= 2
            /\ log[j - 1].ev = "call"
            /\ j = Len(log)
            /\ pc # "delay"
  /\ (reply.kind = "error" /\ pc # "settled") =>
       /\ reply.err.status # 400 <=> Last(log).ev \in { "hard", "delay" }
       /\ reply.err.status = 400 <=> Last(log).ev = "abort"
  /\ (reply.kind = "response" /\ pc # "settled") =>
       Last(log).ev \in { "soft", "accept" }

C19_Witness ==
  /\ pc = "done"
  /\ Kinds(log) = << "call", "soft", "call", "hard", "delay", "call", "accept" >>

\* C20: every request ends with exactly one response: a request is either
\* finished, with exactly one response sent and no upstream call in flight,
\* or it has sent nothing yet and can still take a step (the upstream call
\* it waits for settles, or its code runs on).
C20_ExactlyOneResponse ==
  \/ /\ pc = "done"
     /\ Len(sent) = 1
     /\ inflight = 0
  \/ /\ pc # "done"
     /\ Len(sent) = 0
     /\ ENABLED Next

====
